---- MODULE Spec2Model ----
(***************************************************************************)
(* Model of ckminhano/golib: package apperror (AppError, its constructors, *)
(* the With* metadata builders, IsCategory, Category.String) and the two   *)
(* identifier packages id and pkg/id (NewId, ToString, FromString).        *)
(*                                                                         *)
(* Go values are modelled as follows.                                      *)
(*   error      a record tagged by kind: "nil", "plain" (errors.New),      *)
(*              "wrap" (fmt.Errorf("<text>: %w", inner)), "ptr" (a pointer *)
(*              to an AppError) and "val" (an AppError held by value).     *)
(*   map        a reference into heap; NilMap is the nil map.              *)
(*   *int, *Id  NilPtr or PtrTo(v).                                        *)
(*   string     a TLA+ string, except UUID text, which is a sequence of    *)
(*              one-character strings so that it can be indexed.           *)
(***************************************************************************)
EXTENDS Integers, Sequences, FiniteSets, TLC

VARIABLES objs, heap, panicked, last

vars == <<objs, heap, panicked, last>>

(* ------------------------------ bounds -------------------------------- *)

MaxObjs == 3
MaxRoots == 2
MaxWrap == 2
MaxCat == 8

(* ------------------------- package apperror --------------------------- *)

ErrValidation == 0
ErrInternal == 1
ErrNotFound == 2
ErrMethoNotAllowed == 3
ErrSecurity == 4
ErrForbidden == 5
ErrUnauthorized == 6

Categories ==
  {ErrValidation, ErrInternal, ErrNotFound, ErrMethoNotAllowed, ErrSecurity,
   ErrForbidden, ErrUnauthorized}

StatusBadRequest == 400
StatusUnauthorized == 401
StatusForbidden == 403
StatusNotFound == 404
StatusInternalServerError == 500

NilMap == 0
EmptyMap == [k \in {} |-> ""]

NilPtr == [isNil |-> TRUE]
PtrTo(n) == [isNil |-> FALSE, val |-> n]

NilErr == [kind |-> "nil"]
Plain(text) == [kind |-> "plain", text |-> text]
Wrap(text, inner) == [kind |-> "wrap", text |-> text, inner |-> inner]
Ptr(e) == [kind |-> "ptr", e |-> e]
Val(e) == [kind |-> "val", e |-> e]

Code(category, internal) == [Category |-> category, Internal |-> internal]

AppError(err, status, code, message, metadata) ==
  [Err |-> err, Status |-> status, Code |-> code, Message |-> message,
   Metadata |-> metadata]

\* AppError.Unwrap, the Unwrap of a %w wrapper, and no Unwrap for errors.New.
Unwrap(err) ==
  CASE err.kind = "wrap" -> err.inner
    [] err.kind \in {"ptr", "val"} -> err.e.Err
    [] OTHER -> NilErr

RECURSIVE ErrorText(_)
\* err.Error(): AppError.Error delegates to its cause and ignores Message.
ErrorText(err) ==
  CASE err.kind = "plain" -> err.text
    [] err.kind = "wrap" -> err.text \o ": " \o ErrorText(err.inner)
    [] err.kind \in {"ptr", "val"} -> ErrorText(err.e.Err)

make(h) == [ref |-> Len(h) + 1, heap |-> Append(h, EmptyMap)]

\* A variant that keeps one package-level map instead of calling make.
NewAppError_SharedMap(err, category, internalCode, h) ==
  LET hh == IF h = << >> THEN <<EmptyMap>> ELSE h IN
  [ret |-> AppError(err, 0,
                    Code(category,
                         IF internalCode.isNil THEN 0 ELSE internalCode.val),
                    "", 1),
   heap |-> hh]

NewAppError(err, category, internalCode, h) ==
  LET m == make(h) IN
  IF ~internalCode.isNil
  THEN [ret |-> AppError(err, 0, Code(category, internalCode.val), "", m.ref),
        heap |-> m.heap]
  ELSE [ret |-> AppError(err, 0, Code(category, 0), "", m.ref),
        heap |-> m.heap]

\* A variant that also derives the category from the HTTP code.
withStatus_Categorised(internalCode, err) ==
  AppError(err, 0,
           Code(CASE internalCode = StatusNotFound -> ErrNotFound
                  [] internalCode = StatusUnauthorized -> ErrUnauthorized
                  [] internalCode = StatusForbidden -> ErrForbidden
                  [] internalCode = StatusInternalServerError -> ErrInternal
                  [] OTHER -> ErrValidation,
                internalCode),
           ErrorText(err), NilMap)

withStatus(internalCode, err) ==
  AppError(err, 0, Code(0, internalCode), ErrorText(err), NilMap)

BadRequest(err) == withStatus(StatusBadRequest, err)
NotFound(err) == withStatus(StatusNotFound, err)
Unauthorized(err) == withStatus(StatusUnauthorized, err)
Forbidden(err) == withStatus(StatusForbidden, err)
InternalServerError(err) == withStatus(StatusInternalServerError, err)

Digits == <<"0", "1", "2", "3", "4", "5", "6", "7", "8", "9">>

RECURSIVE FormatUint(_)
FormatUint(n) ==
  IF n < 10 THEN Digits[n + 1]
  ELSE FormatUint(n \div 10) \o Digits[(n % 10) + 1]

\* strconv.Itoa
Itoa(n) == IF n < 0 THEN "-" \o FormatUint(-n) ELSE FormatUint(n)

\* A variant that replaces the map's contents by the one new entry.
MapAssign_Reset(e, key, value, h) ==
  IF e.Metadata = NilMap
  THEN [panic |-> TRUE, heap |-> h]
  ELSE [panic |-> FALSE,
        heap |-> [h EXCEPT ![e.Metadata] = [k \in {key} |-> value]]]

\* m[key] = value on the map a reference denotes; a nil map panics.
MapAssign(e, key, value, h) ==
  IF e.Metadata = NilMap
  THEN [panic |-> TRUE, heap |-> h]
  ELSE [panic |-> FALSE,
        heap |-> [h EXCEPT ![e.Metadata] =
                    [k \in DOMAIN @ \cup {key} |->
                       IF k = key THEN value ELSE @[k]]]]

\* A variant that clones the map before inserting (copy on write).
WithField_Clone(e, value, h) ==
  IF e.Metadata = NilMap
  THEN [panic |-> TRUE, ret |-> e, heap |-> h]
  ELSE LET c == Append(h, h[e.Metadata])
           w == MapAssign([e EXCEPT !.Metadata = Len(c)], "field", value, c)
       IN [panic |-> FALSE, ret |-> [e EXCEPT !.Metadata = Len(c)],
           heap |-> w.heap]

\* The value receiver copies the struct; the copy's Metadata is the same map.
WithField(e, value, h) ==
  LET w == MapAssign(e, "field", value, h) IN
  [panic |-> w.panic, ret |-> e, heap |-> w.heap]

WithRow(e, row, h) ==
  LET w == MapAssign(e, "row", Itoa(row), h) IN
  [panic |-> w.panic, ret |-> e, heap |-> w.heap]

\* A variant that also stores the text in Message.
WithInfo_SetsMessage(e, info, h) ==
  LET w == MapAssign(e, "info", info, h) IN
  [panic |-> w.panic, ret |-> [e EXCEPT !.Message = info], heap |-> w.heap]

WithInfo(e, info, h) ==
  LET w == MapAssign(e, "info", info, h) IN
  [panic |-> w.panic, ret |-> e, heap |-> w.heap]

RECURSIVE As_Innermost(_)
\* A variant that keeps the innermost *AppError of the chain.
As_Innermost(err) ==
  IF err.kind = "nil" THEN [ok |-> FALSE]
  ELSE LET deeper == As_Innermost(Unwrap(err)) IN
       IF deeper.ok THEN deeper
       ELSE IF err.kind = "ptr" THEN [ok |-> TRUE, target |-> err.e]
       ELSE [ok |-> FALSE]

RECURSIVE As(_)
\* errors.As(srcErr, &appErr) for appErr of type *AppError: the first error of
\* the unwrap chain that is a *AppError. An AppError held by value is not
\* assignable to the target and is unwrapped like any other wrapper.
As(err) ==
  IF err.kind = "nil" THEN [ok |-> FALSE]
  ELSE IF err.kind = "ptr" THEN [ok |-> TRUE, target |-> err.e]
  ELSE As(Unwrap(err))

IsCategory(srcErr, category) ==
  LET r == As(srcErr) IN
  IF r.ok THEN r.target.Code.Category = category ELSE FALSE

String(c) ==
  CASE c = ErrValidation -> "ValidationError"
    [] c = ErrInternal -> "InternalError"
    [] c = ErrNotFound -> "NotFouncError"
    [] c = ErrMethoNotAllowed -> "MethoNotAllowedError"
    [] c = ErrForbidden -> "ForbiddenError"
    [] c = ErrUnauthorized -> "UnauthorizedError"
    [] OTHER -> "UnkownCategoryError"

(* ----------------------- packages id and pkg/id ----------------------- *)
\* A uuid.UUID is a sequence of 16 bytes; UUID text is a sequence of
\* one-character strings.

HexLower ==
  <<"0", "1", "2", "3", "4", "5", "6", "7", "8", "9", "a", "b", "c", "d",
    "e", "f">>
HexUpper == <<"A", "B", "C", "D", "E", "F">>

NilUUID == [i \in 1..16 |-> 0]

HexByte(b) == <<HexLower[(b \div 16) + 1], HexLower[(b % 16) + 1]>>

RECURSIVE EncodeHex(_, _, _)
EncodeHex(u, from, to) ==
  IF from > to THEN << >> ELSE HexByte(u[from]) \o EncodeHex(u, from + 1, to)

\* uuid.UUID.String: the 8-4-4-4-12 lower-case form.
UUIDString(u) ==
  EncodeHex(u, 1, 4) \o <<"-">> \o EncodeHex(u, 5, 6) \o <<"-">>
    \o EncodeHex(u, 7, 8) \o <<"-">> \o EncodeHex(u, 9, 10) \o <<"-">>
    \o EncodeHex(u, 11, 16)

XValue(c) ==
  IF \E n \in DOMAIN HexLower : HexLower[n] = c
  THEN (CHOOSE n \in DOMAIN HexLower : HexLower[n] = c) - 1
  ELSE IF \E n \in DOMAIN HexUpper : HexUpper[n] = c
  THEN (CHOOSE n \in DOMAIN HexUpper : HexUpper[n] = c) + 9
  ELSE 255

Xtob(c1, c2) ==
  [ok |-> XValue(c1) /= 255 /\ XValue(c2) /= 255,
   b |-> (XValue(c1) * 16 + XValue(c2)) % 256]

\* The offsets, counted from 1, of the 16 bytes in the 36-character form.
ByteOffsets == <<1, 3, 5, 7, 10, 12, 15, 17, 20, 22, 25, 27, 29, 31, 33, 35>>

\* uuid.Parse on the 36-character and the 32-character forms; every other
\* length met here is an invalid length (the URN and braced forms, of 45 and
\* 38 characters, are not among the inputs).
Parse(s) ==
  LET at(off) == Xtob(s[off], s[off + 1]) IN
  IF Len(s) = 36
  THEN IF s[9] /= "-" \/ s[14] /= "-" \/ s[19] /= "-" \/ s[24] /= "-"
       THEN [ok |-> FALSE]
       ELSE IF \A i \in 1..16 : at(ByteOffsets[i]).ok
            THEN [ok |-> TRUE, uuid |-> [i \in 1..16 |-> at(ByteOffsets[i]).b]]
            ELSE [ok |-> FALSE]
  ELSE IF Len(s) = 32
  THEN IF \A i \in 1..16 : at(2 * i - 1).ok
       THEN [ok |-> TRUE, uuid |-> [i \in 1..16 |-> at(2 * i - 1).b]]
       ELSE [ok |-> FALSE]
  ELSE [ok |-> FALSE]

\* src/id: NewId wraps uuid.New(), here the drawn value u.
Id_NewId(u) == PtrTo(u)
Id_ToString(id) == UUIDString(id.val)

\* uuid.MustParse panics where uuid.Parse fails.
Id_FromString(s) ==
  IF s = << >> \/ s = UUIDString(NilUUID)
  THEN [panic |-> FALSE, id |-> NilPtr,
        err |-> Plain("string s cannot be empty")]
  ELSE LET r == Parse(s) IN
       IF r.ok THEN [panic |-> FALSE, id |-> PtrTo(r.uuid), err |-> NilErr]
       ELSE [panic |-> TRUE, id |-> NilPtr, err |-> NilErr]

\* src/pkg/id: NewId returns the zero Id.
PkgId_NewId == PtrTo(NilUUID)
PkgId_ToString(id) == UUIDString(id.val)

PkgId_FromString(s) ==
  IF s = << >>
  THEN [panic |-> FALSE, id |-> NilPtr,
        err |-> Plain("string s cannot be empty")]
  ELSE LET r == Parse(s) IN
       IF r.ok THEN [panic |-> FALSE, id |-> PtrTo(r.uuid), err |-> NilErr]
       ELSE [panic |-> TRUE, id |-> NilPtr, err |-> NilErr]

(* ------------------------------ inputs -------------------------------- *)

\* A hand-built *AppError (the struct is exported), used as an inner cause.
InnerForbidden ==
  AppError(Plain("denied"), 0, Code(ErrForbidden, 0), "", NilMap)

Causes == {Plain("boom"), Wrap("ctx", Ptr(InnerForbidden))}

NewCategories == {ErrValidation, ErrNotFound, ErrUnauthorized}
InternalCodes == {NilPtr, PtrTo(42)}
FieldValues == {"x", "y"}
RowValues == {7, -12}
InfoValues == {"x", "y"}

CatInputs == (-1)..MaxCat

\* Two values uuid.New() can return (version 4, variant 10).
RandomUUIDs ==
  {<<244, 122, 193, 11, 88, 204, 67, 114, 165, 103, 14, 2, 178, 195, 212, 121>>,
   <<155, 45, 0, 255, 16, 1, 79, 171, 188, 222, 0, 0, 10, 160, 9, 153>>}

IdInputs == {PtrTo(u) : u \in RandomUUIDs \cup {NilUUID}}

RECURSIVE Repeat(_, _)
Repeat(c, n) == IF n = 0 THEN << >> ELSE <<c>> \o Repeat(c, n - 1)

UpperCase(s) ==
  [i \in DOMAIN s |->
     IF XValue(s[i]) \in 10..15 THEN HexUpper[XValue(s[i]) - 9] ELSE s[i]]

\* The texts handed to FromString: empty, the nil UUID in its canonical and
\* its 32-digit form, valid UUIDs in lower and upper case, and two texts
\* uuid.Parse rejects (a wrong length, a misplaced dash).
Texts ==
  {<< >>, UUIDString(NilUUID), Repeat("0", 32),
   <<"n", "o", "t", "-", "a", "-", "u", "u", "i", "d">>,
   Repeat("0", 9) \o <<"-">> \o Repeat("0", 26)}
    \cup {UUIDString(u) : u \in RandomUUIDs}
    \cup {UpperCase(UUIDString(u)) : u \in RandomUUIDs}

RECURSIVE Wrapped(_, _)
\* n layers of fmt.Errorf("w: %w", err).
Wrapped(err, n) == IF n = 0 THEN err ELSE Wrap("w", Wrapped(err, n - 1))

\* A struct literal of the exported type, with no Metadata.
Literal(err, category) == AppError(err, 0, Code(category, 0), "", NilMap)

(* --------------------------- the object store -------------------------- *)
\* objs records every AppError a call has returned, in call order: e is the
\* struct, the other fields remember the call that returned it (parent = 0
\* for a constructor's result, else the receiver of the With* call).

NoCall == [op |-> "none"]

Init ==
  /\ objs = << >>
  /\ heap = << >>
  /\ panicked = "none"
  /\ last = NoCall

Running == panicked = "none"

Roots == {i \in DOMAIN objs : objs[i].parent = 0}

CanConstruct ==
  /\ Running
  /\ Len(objs) < MaxObjs
  /\ Cardinality(Roots) < MaxRoots

Returned(e, ctor, args, idx) ==
  [e |-> e, ctor |-> ctor, args |-> args, parent |-> 0, root |-> idx,
   calls |-> << >>]

NewAppErrorCall ==
  /\ CanConstruct
  /\ \E err \in Causes, category \in NewCategories, p \in InternalCodes :
       LET r == NewAppError(err, category, p, heap) IN
       /\ objs' = Append(objs,
                    Returned(r.ret, "NewAppError",
                             [err |-> err, category |-> category,
                              internalCode |-> p],
                             Len(objs) + 1))
       /\ heap' = r.heap
  /\ UNCHANGED <<panicked, last>>

Convenience(ctor, e, err) ==
  /\ objs' = Append(objs, Returned(e, ctor, [err |-> err], Len(objs) + 1))
  /\ UNCHANGED <<heap, panicked, last>>

BadRequestCall ==
  /\ CanConstruct
  /\ \E err \in Causes : Convenience("BadRequest", BadRequest(err), err)

NotFoundCall ==
  /\ CanConstruct
  /\ \E err \in Causes : Convenience("NotFound", NotFound(err), err)

UnauthorizedCall ==
  /\ CanConstruct
  /\ \E err \in Causes : Convenience("Unauthorized", Unauthorized(err), err)

ForbiddenCall ==
  /\ CanConstruct
  /\ \E err \in Causes : Convenience("Forbidden", Forbidden(err), err)

InternalServerErrorCall ==
  /\ CanConstruct
  /\ \E err \in Causes :
       Convenience("InternalServerError", InternalServerError(err), err)

Derived(i, op, arg, e, os) ==
  [e |-> e, ctor |-> os[i].ctor, args |-> os[i].args, parent |-> i,
   root |-> os[i].root,
   calls |-> Append(os[i].calls, [op |-> op, arg |-> arg])]

\* The outcome of a With* call on objs[i]: a new object, or a panic, which
\* ends the program.
Derive(i, op, arg, r) ==
  /\ heap' = r.heap
  /\ IF r.panic
     THEN /\ panicked' = op
          /\ objs' = objs
     ELSE /\ panicked' = panicked
          /\ objs' = Append(objs, Derived(i, op, arg, r.ret, objs))
  /\ UNCHANGED last

CanDerive == Running /\ Len(objs) < MaxObjs

WithFieldCall ==
  /\ CanDerive
  /\ \E i \in DOMAIN objs, value \in FieldValues :
       Derive(i, "WithField", value, WithField(objs[i].e, value, heap))

WithRowCall ==
  /\ CanDerive
  /\ \E i \in DOMAIN objs, row \in RowValues :
       Derive(i, "WithRow", row, WithRow(objs[i].e, row, heap))

WithInfoCall ==
  /\ CanDerive
  /\ \E i \in DOMAIN objs, info \in InfoValues :
       Derive(i, "WithInfo", info, WithInfo(objs[i].e, info, heap))

Next ==
  \/ NewAppErrorCall
  \/ BadRequestCall
  \/ NotFoundCall
  \/ UnauthorizedCall
  \/ ForbiddenCall
  \/ InternalServerErrorCall
  \/ WithFieldCall
  \/ WithRowCall
  \/ WithInfoCall

Spec == Init /\ [][Next]_vars

(* ----------------------- properties of the store ---------------------- *)

Keys == {"field", "row", "info"}
SetterOf == [field |-> "WithField", row |-> "WithRow", info |-> "WithInfo"]
ConvenienceNames ==
  {"BadRequest", "NotFound", "Unauthorized", "Forbidden",
   "InternalServerError"}
FixedStatus ==
  [BadRequest |-> 400, NotFound |-> 404, Unauthorized |-> 401,
   Forbidden |-> 403, InternalServerError |-> 500]

\* The rendered text of each cause the constructors are given.
ExpectedText(err) == IF err = Plain("boom") THEN "boom" ELSE "ctx: denied"
\* The decimal text of each row the calls are given.
DecimalOf(row) == IF row = 7 THEN "7" ELSE "-12"
Stored(call) == IF call.op = "WithRow" THEN DecimalOf(call.arg) ELSE call.arg

Meta(i) == heap[objs[i].e.Metadata]
Family(i) == {j \in DOMAIN objs : objs[j].root = objs[i].root}
FromNew(i) == objs[i].ctor = "NewAppError"

\* C1: every convenience constructor's result has its fixed HTTP code in
\* Status (400, 404, 401, 403, 500) and the cause's text in Message.
C1_ConvenienceStatus ==
  \A i \in DOMAIN objs :
    objs[i].ctor \in ConvenienceNames =>
      /\ objs[i].e.Status = FixedStatus[objs[i].ctor]
      /\ objs[i].e.Message = ExpectedText(objs[i].args.err)

\* C2: no With* call panics, whichever constructor or earlier With* call
\* returned its receiver.
C2_WithNeverPanics == panicked \notin {"WithField", "WithRow", "WithInfo"}

\* C5: NewAppError(err, c, p) returns Err = err, Code.Category = c,
\* Code.Internal = *p or 0 when p is nil, Status = 0, an empty Message and a
\* non-nil Metadata map that is empty until a With* call on this result's
\* family writes to it and that no other NewAppError result shares.
C5_NewAppErrorResult ==
  \A i \in DOMAIN objs :
    (FromNew(i) /\ objs[i].parent = 0) =>
      LET e == objs[i].e
          a == objs[i].args
      IN /\ e.Err = a.err
         /\ e.Code.Category = a.category
         /\ e.Code.Internal = (IF a.internalCode.isNil THEN 0
                               ELSE a.internalCode.val)
         /\ e.Status = 0
         /\ e.Message = ""
         /\ e.Metadata /= NilMap
         /\ e.Metadata \in DOMAIN heap
         /\ (Family(i) = {i} => DOMAIN Meta(i) = {})
         /\ \A j \in DOMAIN objs :
              (FromNew(j) /\ objs[j].parent = 0 /\ j /= i) =>
                objs[j].e.Metadata /= e.Metadata

C5_Witness ==
  \E i, j, k \in DOMAIN objs :
    /\ FromNew(i) /\ objs[i].parent = 0 /\ objs[i].args.internalCode.isNil
    /\ FromNew(j) /\ objs[j].parent = 0 /\ ~objs[j].args.internalCode.isNil
    /\ objs[j].e.Code.Internal = 42
    /\ objs[k].parent = j
    /\ Family(i) = {i}

\* The index in calls of the last call that set key, 0 when none did.
LastSet(calls, key) ==
  LET S == {n \in DOMAIN calls : calls[n].op = SetterOf[key]} IN
  IF S = {} THEN 0 ELSE CHOOSE n \in S : \A m \in S : m <= n

\* objs[i] is the end of a chain e.With..().With..() on a NewAppError result
\* and nothing else was derived from that result.
ChainEnd(i) ==
  FromNew(i) /\ Cardinality(Family(i)) = Len(objs[i].calls) + 1

\* C6: at the end of a chain of With* calls on a NewAppError result, Metadata
\* maps each of "field", "row", "info" that the chain set to the value of the
\* last call that set it (the row in decimal), and no map ever holds another
\* key.
C6_ChainMetadata ==
  /\ \A m \in DOMAIN heap : DOMAIN heap[m] \subseteq Keys
  /\ \A i \in DOMAIN objs :
       ChainEnd(i) =>
         \A key \in Keys :
           LET n == LastSet(objs[i].calls, key) IN
           n /= 0 => /\ key \in DOMAIN Meta(i)
                     /\ Meta(i)[key] = Stored(objs[i].calls[n])

C6_Witness ==
  \E i \in DOMAIN objs :
    /\ ChainEnd(i)
    /\ Len(objs[i].calls) = 2
    /\ objs[i].calls[1] = [op |-> "WithField", arg |-> "x"]
    /\ objs[i].calls[2] = [op |-> "WithRow", arg |-> -12]
    /\ Meta(i) = [k \in {"field", "row"} |->
                    IF k = "field" THEN "x" ELSE "-12"]

\* C7: a With* call returns an AppError with the receiver's Err, Status, Code
\* and Message, so every AppError reached from a constructor renders its
\* cause's text and unwraps to its cause.
C7_WithFrame ==
  \A i \in DOMAIN objs :
    /\ ErrorText(Ptr(objs[i].e)) = ExpectedText(objs[i].args.err)
    /\ Unwrap(Ptr(objs[i].e)) = objs[i].args.err
    /\ objs[i].parent /= 0 =>
         LET e == objs[i].e
             r == objs[objs[i].parent].e
         IN /\ e.Err = r.Err
            /\ e.Status = r.Status
            /\ e.Code = r.Code
            /\ e.Message = r.Message

C7_Witness ==
  \E i, j \in DOMAIN objs :
    /\ Len(objs[i].calls) = 1
    /\ objs[i].calls[1].op = "WithInfo"
    /\ objs[i].e.Code = Code(ErrNotFound, 42)
    /\ objs[i].args.err = Wrap("ctx", Ptr(InnerForbidden))
    /\ objs[j].ctor = "NotFound"
    /\ objs[j].e.Message = "boom"

\* The latest call, over the whole family of i, that set key; 0 when none.
LastWriter(i, key) ==
  LET S == {j \in Family(i) :
              objs[j].parent /= 0
              /\ objs[j].calls[Len(objs[j].calls)].op = SetterOf[key]}
  IN IF S = {} THEN 0 ELSE CHOOSE j \in S : \A k \in S : k <= j

\* C9: a NewAppError result and everything derived from it by With* calls
\* hold the same Metadata map, so each of them sees, for every key, the value
\* written by the latest call on any of them.
C9_SharedMetadata ==
  \A i \in DOMAIN objs :
    FromNew(i) =>
      /\ \A j \in Family(i) :
           /\ objs[j].e.Metadata = objs[i].e.Metadata
           /\ Meta(j) = Meta(i)
      /\ \A key \in Keys :
           LET w == LastWriter(i, key) IN
           IF w = 0 THEN key \notin DOMAIN Meta(i)
           ELSE /\ key \in DOMAIN Meta(i)
                /\ Meta(i)[key] =
                     Stored(objs[w].calls[Len(objs[w].calls)])

C9_Witness ==
  \E b, i, j \in DOMAIN objs :
    /\ FromNew(b) /\ objs[b].parent = 0
    /\ objs[i].parent = b /\ objs[i].calls = <<[op |-> "WithField", arg |-> "x"]>>
    /\ objs[j].parent = b /\ objs[j].calls = <<[op |-> "WithField", arg |-> "y"]>>
    /\ i < j
    /\ Meta(b)["field"] = "y"
    /\ Meta(i)["field"] = "y"

(* ------------------------- the query operations ------------------------ *)
\* last holds the most recent call of a function that returns a value without
\* touching the store, with its arguments and its result.

\* A store NewAppError and WithField leave behind, for the queries to read.
SampleStore ==
  LET n == NewAppError(Plain("boom"), ErrNotFound, NilPtr, << >>)
      o == <<Returned(n.ret, "NewAppError",
                      [err |-> Plain("boom"), category |-> ErrNotFound,
                       internalCode |-> NilPtr], 1)>>
      w == WithField(n.ret, "x", n.heap)
  IN [objs |-> Append(o, Derived(1, "WithField", "x", w.ret, o)),
      heap |-> w.heap]

InitQuery ==
  /\ objs = SampleStore.objs
  /\ heap = SampleStore.heap
  /\ panicked = "none"
  /\ last = NoCall

\* The errors IsCategory is asked about, before wrapping.
QueryErrors ==
  {[tag |-> "nil", err |-> NilErr], [tag |-> "plain", err |-> Plain("boom")]}
    \cup {[tag |-> "BadRequest", err |-> Ptr(BadRequest(c))] : c \in Causes}
    \cup {[tag |-> "NotFound", err |-> Ptr(NotFound(c))] : c \in Causes}
    \cup {[tag |-> "Unauthorized", err |-> Ptr(Unauthorized(c))] : c \in Causes}
    \cup {[tag |-> "Forbidden", err |-> Ptr(Forbidden(c))] : c \in Causes}
    \cup {[tag |-> "InternalServerError", err |-> Ptr(InternalServerError(c))] :
            c \in Causes}
    \cup {[tag |-> "literal", err |-> Ptr(Literal(c, k))] :
            c \in Causes, k \in Categories}
    \cup {[tag |-> "value", err |-> Val(Literal(c, ErrNotFound))] : c \in Causes}
    \cup {[tag |-> "stored", err |-> Ptr(objs[i].e)] : i \in DOMAIN objs}

IsCategoryCall ==
  /\ Running
  /\ \E q \in QueryErrors, n \in 0..MaxWrap, c \in CatInputs :
       /\ q.tag = "nil" => n = 0
       /\ last' = [op |-> "IsCategory", tag |-> q.tag, wraps |-> n,
                   err |-> Wrapped(q.err, n), category |-> c,
                   result |-> IsCategory(Wrapped(q.err, n), c)]
  /\ UNCHANGED <<objs, heap, panicked>>

StringCall ==
  /\ Running
  /\ \E c \in CatInputs : last' = [op |-> "String", c |-> c, result |-> String(c)]
  /\ UNCHANGED <<objs, heap, panicked>>

FromStringResult(op, s, r) ==
  /\ last' = [op |-> op, s |-> s, panic |-> r.panic, id |-> r.id, err |-> r.err]
  /\ panicked' = IF r.panic THEN "MustParse" ELSE panicked
  /\ UNCHANGED <<objs, heap>>

Id_FromStringCall ==
  /\ Running
  /\ \E s \in Texts : FromStringResult("id.FromString", s, Id_FromString(s))

PkgId_FromStringCall ==
  /\ Running
  /\ \E s \in Texts :
       FromStringResult("pkg/id.FromString", s, PkgId_FromString(s))

Id_NewIdCall ==
  /\ Running
  /\ \E u \in RandomUUIDs : last' = [op |-> "id.NewId", id |-> Id_NewId(u)]
  /\ UNCHANGED <<objs, heap, panicked>>

PkgId_NewIdCall ==
  /\ Running
  /\ last' = [op |-> "pkg/id.NewId", id |-> PkgId_NewId]
  /\ UNCHANGED <<objs, heap, panicked>>

Id_ToStringCall ==
  /\ Running
  /\ \E id \in IdInputs :
       last' = [op |-> "id.ToString", id |-> id, result |-> Id_ToString(id)]
  /\ UNCHANGED <<objs, heap, panicked>>

PkgId_ToStringCall ==
  /\ Running
  /\ \E id \in IdInputs :
       last' = [op |-> "pkg/id.ToString", id |-> id,
                result |-> PkgId_ToString(id)]
  /\ UNCHANGED <<objs, heap, panicked>>

NextQuery ==
  \/ IsCategoryCall
  \/ StringCall
  \/ Id_FromStringCall
  \/ PkgId_FromStringCall
  \/ Id_NewIdCall
  \/ PkgId_NewIdCall
  \/ Id_ToStringCall
  \/ PkgId_ToStringCall

SpecQuery == InitQuery /\ [][NextQuery]_vars

(* ---------------------- properties of the queries --------------------- *)

Fallback == "UnkownCategoryError"

\* C3: Category.String gives each of the seven categories a non-empty name of
\* its own, different from every other category's and from the fallback, and
\* gives every other value the fallback "UnkownCategoryError".
C3_StringNames ==
  last.op = "String" =>
    IF last.c \in Categories
    THEN /\ last.result /= ""
         /\ last.result /= Fallback
         /\ \A d \in Categories \ {last.c} : String(d) /= last.result
    ELSE last.result = Fallback

RECURSIVE Chain(_)
\* The unwrap chain of err, outermost first.
Chain(err) == IF err.kind = "nil" THEN << >> ELSE <<err>> \o Chain(Unwrap(err))

FirstPtr(ch) ==
  LET P == {n \in DOMAIN ch : ch[n].kind = "ptr"} IN
  IF P = {} THEN 0 ELSE CHOOSE n \in P : \A m \in P : n <= m

C4_Result ==
  last.op = "IsCategory" =>
    LET ch == Chain(last.err)
        n == FirstPtr(ch)
    IN last.result = (n /= 0 /\ ch[n].e.Code.Category = last.category)

\* C4: IsCategory(err, c) is true exactly when the outermost *AppError of
\* err's unwrap chain, reached through any wrappers, has category c; it is
\* false when the chain holds no *AppError; and the call changes no state.
C4_IsCategory ==
  /\ []C4_Result
  /\ [][last'.op = "IsCategory" /\ last' /= last =>
          UNCHANGED <<objs, heap, panicked>>]_vars

C4_Witness ==
  /\ last.op = "IsCategory"
  /\ last.tag = "literal"
  /\ last.wraps = 2
  /\ Len(Chain(last.err)) = 6
  /\ Chain(last.err)[3].e.Code.Category = ErrSecurity
  /\ Chain(last.err)[5].e.Code.Category = ErrForbidden
  /\ last.category = ErrSecurity
  /\ last.result = TRUE

NilUUIDText ==
  Repeat("0", 8) \o <<"-">> \o Repeat("0", 4) \o <<"-">> \o Repeat("0", 4)
    \o <<"-">> \o Repeat("0", 4) \o <<"-">> \o Repeat("0", 12)

\* C8: in both identifier packages FromString returns an error and no Id for
\* the empty string and for the nil UUID text.
C8_FromStringRejects ==
  (last.op \in {"id.FromString", "pkg/id.FromString"}
   /\ last.s \in {<< >>, NilUUIDText}) =>
    /\ ~last.panic
    /\ last.err /= NilErr
    /\ last.id = NilPtr

\* C10: for every convenience constructor K, IsCategory(K(err), c) is true
\* exactly when c is ErrValidation, the zero Category.
C10_ConvenienceCategory ==
  (last.op = "IsCategory" /\ last.tag \in ConvenienceNames /\ last.wraps = 0) =>
    /\ last.err.e.Code.Category = ErrValidation
    /\ last.result = (last.category = ErrValidation)

C10_Witness ==
  /\ last.op = "IsCategory"
  /\ last.tag = "NotFound"
  /\ last.wraps = 0
  /\ last.category = ErrNotFound
  /\ last.result = FALSE

====
